---- MODULE Spec2Model ----
(***************************************************************************)
(* dashcam_ocr: the frame-record extraction and cleaning pipeline.         *)
(*                                                                         *)
(*   scripts/map_functions.py   clean_dataframe (reindexer, outlier filter)*)
(*   scripts/ocr_functions.py   text_to_coordinates, dict_to_dataframe,    *)
(*                              image_directory_to_dict                    *)
(*                                                                         *)
(* Numbers.  Latitude, longitude and speed are whole numbers here          *)
(* (degrees, speed units); Float64 rounding is not modelled.  A mean is    *)
(* kept as the pair (sum, n) and a sample standard deviation (ddof = 1)    *)
(* as the sum of squared deviations scaled by n^2, so that every band test *)
(* |x| >= |mean| - k*std /\ |x| <= |mean| + k*std is decided exactly, by   *)
(* cross-multiplication, with no root and no division.                     *)
(***************************************************************************)
EXTENDS Integers, Sequences, FiniteSets, TLC

VARIABLES
    pc,         \* the statement the running function is at
    error,      \* the exception that ended the run ("none" while running)
    input,      \* the table clean_dataframe was called with
    df,         \* clean_dataframe: the table, a sequence of rows
    loaded,     \* number of row blocks read into the input table
    interval,   \* clean_dataframe: the reindexer's interval (line 12)
    stats,      \* clean_dataframe: the means and deviations of lines 22-29
    dstats,     \* clean_dataframe: the means and deviations of lines 48-51
    base,       \* clean_dataframe: the table those statistics were taken over
    prev,       \* clean_dataframe: the table as it entered the last filter step
    run,        \* how many times the outlier filter has been started
    out1,       \* the table the first run of the outlier filter returned
    time_dict,  \* dict_to_dataframe: the timestamp stream, frame index -> entry
    gps_dict,   \* dict_to_dataframe: the coordinate stream
    speed_dict, \* dict_to_dataframe: the speed stream
    joined_df,  \* dict_to_dataframe: the table returned
    coord_string, \* text_to_coordinates: the OCR text, a sequence of characters
    slot,       \* how many parts of the OCR text have been written
    gps_dict_out, \* text_to_coordinates: the dict returned
    input_dir,  \* image_directory_to_dict: the path, a sequence of segments
    pslot,      \* how many parts of the path have been chosen
    dir_exists, \* the file system: whether input_dir exists
    listing,    \* the file system: the names of the files in input_dir
    image_files, \* image_directory_to_dict: the sorted image names (line 73)
    data_type,  \* image_directory_to_dict: the attribute kind (line 74)
    next_image, \* image_directory_to_dict: the loop's position in image_files
    frame_dict  \* image_directory_to_dict: the dict being filled and returned

cleanVars == <<input, df, loaded, interval, stats, dstats, base, prev, run, out1>>

joinVars == <<time_dict, gps_dict, speed_dict, joined_df>>

coordVars == <<coord_string, slot, gps_dict_out>>

dirVars == <<input_dir, pslot, dir_exists, listing, image_files, data_type, next_image, frame_dict>>

vars == <<pc, error, cleanVars, joinVars, coordVars, dirVars>>

(***************************************************************************)
(* Bounds of the model.                                                    *)
(***************************************************************************)
\* blocks of rows in an input table of the filter specification
MaxBlocks == 3
\* rows in a long block: three long blocks reach the 45 rows from which the
\* delta filter's widened band can reject a row at all
BlockRows == 15
\* rows in an input table of the reindexer specification
MaxFrames == 5
\* frame indices an attribute stream may hold
MaxStreamFrames == 3

(***************************************************************************)
(* Program constants.                                                      *)
(***************************************************************************)
std_threshold == 2
speed_std_threshold == 3
\* the 100 of (1 + 100 / df.height)
SmallSampleTerm == 100
\* the sampling frequency main.py hands to the frame extractor
Frequency == 3

(***************************************************************************)
(* Arithmetic helpers.                                                     *)
(***************************************************************************)
Abs(x) == IF x < 0 THEN -x ELSE x

RECURSIVE SumTo(_, _)
\* s[1] + ... + s[i]
SumTo(s, i) == IF i = 0 THEN 0 ELSE s[i] + SumTo(s, i - 1)

Sum(s) == SumTo(s, Len(s))

RECURSIVE FracLeq(_, _, _, _)
\* p1/q1 <= p2/q2 for naturals p1, p2 and positive q1, q2, by Euclid's
\* algorithm on the two fractions (no product is formed)
FracLeq(p1, q1, p2, q2) ==
    LET i1 == p1 \div q1
        i2 == p2 \div q2
        r1 == p1 % q1
        r2 == p2 % q2
    IN  IF i1 < i2 THEN TRUE
        ELSE IF i1 > i2 THEN FALSE
        ELSE IF r1 = 0 THEN TRUE
        ELSE IF r2 = 0 THEN FALSE
        ELSE FracLeq(q2, r2, q1, r1)

(***************************************************************************)
(* polars primitives, on columns (sequences of integers).                  *)
(***************************************************************************)
\* df[name]
Column(d, name) == [i \in 1..Len(d) |-> d[i][name]]

\* pl.col(c).diff().fill_null(fill): the first row has no predecessor, its
\* null difference is replaced by fill
DiffFillNull(col, fill) ==
    [i \in 1..Len(col) |-> IF i = 1 THEN fill ELSE col[i] - col[i - 1]]

Count(col, v) == Cardinality({i \in 1..Len(col) : col[i] = v})

\* Expr.mode(): every most frequent value; polars fixes no order among them
Mode(col) ==
    LET vals == {col[i] : i \in 1..Len(col)}
        cnt == [v \in vals |-> Count(col, v)]
    IN  {v \in vals : \A w \in vals : cnt[w] <= cnt[v]}

\* len(range(start, stop, step)), step # 0
RangeLen(start, stop, step) ==
    IF step > 0
    THEN (IF stop > start THEN (stop - start + step - 1) \div step ELSE 0)
    ELSE (IF stop < start THEN (start - stop - step - 1) \div (-step) ELSE 0)

\* list(range(start, stop, step)), step # 0
Range(start, stop, step) ==
    [i \in 1..RangeLen(start, stop, step) |-> start + (i - 1) * step]

\* Series.mean() and Series.std(): n = 0 gives a null mean, n <= 1 a null std.
\* mean = sum / n,  std^2 = dev2 / (n^2 * (n - 1))
ColStats(col) ==
    LET n == Len(col)
        s == Sum(col)
    IN  [n |-> n, sum |-> s, dev2 |-> Sum([i \in 1..n |-> (n * col[i] - s) * (n * col[i] - s)])]

\* the band test with the mean left signed: abs(x) against mean -+ k*std
WithinBand_SignedMean(x, st, kn, kd) ==
    LET d == st.n * Abs(x) - st.sum
        lhs == (st.n - 1) * d * d
    IN  IF st.dev2 = 0 THEN d = 0
        ELSE FracLeq(lhs, st.dev2, kn * kn, kd * kd)

\* abs(x) >= abs(mean) - k*std  /\  abs(x) <= abs(mean) + k*std, with
\* k = kn / kd and st.n >= 2:  (n-1) * (n|x| - |sum|)^2 * kd^2 <= kn^2 * dev2
WithinBand(x, st, kn, kd) ==
    LET d == st.n * Abs(x) - Abs(st.sum)
        lhs == (st.n - 1) * d * d
    IN  IF st.dev2 = 0 THEN d = 0
        ELSE FracLeq(lhs, st.dev2, kn * kn, kd * kd)

(***************************************************************************)
(* Input tables.  A row of dashcam.csv is a record of the six columns; the *)
(* rows below are the typical sample of a trip and the anomalies the       *)
(* filter is written for (tests/test_main.py, lines 31-35).                *)
(***************************************************************************)
Sample(lat, lon, spd) ==
    [timestamp |-> "08-04-2024", latitude |-> lat, longitude |-> lon,
     speed |-> spd, speed_units |-> "MPH"]

Typical == Sample(30, -97, 70)
\* one degree further north
North == Sample(31, -97, 70)
\* one degree further north and west
NorthWest == Sample(31, -98, 70)
\* a misread position far from the trip
Distant == Sample(40, -107, 70)
\* the coordinate parser's failure sentinel
Sentinel == Sample(0, 0, 54)
\* a misread speed
Fast == Sample(30, -97, 110)
\* positions outside the valid domain
BadLatitude == Sample(95, -97, 70)
BadLongitude == Sample(30, -190, 70)
\* a position south of the equator
South == Sample(-30, -97, 70)

\* what one read appends to the input table: <<row, number of copies>>
InputBlocks ==
    {<<Typical, 1>>, <<Typical, 5>>, <<Typical, BlockRows>>,
     <<North, 1>>, <<North, BlockRows>>,
     <<NorthWest, 1>>, <<NorthWest, BlockRows>>,
     <<Distant, 1>>, <<Sentinel, 1>>, <<Fast, 1>>,
     <<BadLatitude, 1>>, <<BadLongitude, 1>>, <<South, 1>>}

\* rows and frame_index steps of the reindexer specification's tables: the
\* sampling step, the step after a dropped frame, and 0 for the first frame
\* of the next video, whose frame_index starts again at 0
FrameRows == {Typical, Sentinel}

FrameSteps == {0, Frequency, Frequency + 1}

\* a row of dashcam.csv
InputRow(r, f) ==
    [frame_index |-> f, timestamp |-> r.timestamp, latitude |-> r.latitude,
     longitude |-> r.longitude, speed |-> r.speed, speed_units |-> r.speed_units]

NextFrameIndex(d, step) ==
    IF Len(d) = 0 \/ step = 0 THEN 0 ELSE d[Len(d)].frame_index + step

\* c rows r appended to d, frame_index advancing by step
Append_(d, r, c, step) ==
    d \o [i \in 1..c |-> InputRow(r, NextFrameIndex(d, step) + (i - 1) * step)]

(***************************************************************************)
(* clean_dataframe, statement by statement.                                *)
(***************************************************************************)
NoStats == [n |-> 0, sum |-> 0, dev2 |-> 0]

NoColumnStats == [latitude |-> NoStats, longitude |-> NoStats, speed |-> NoStats]

\* the table with frame_index renamed to new_index, the range unused
Reindexed_KeepsFrameIndex(d, idx) ==
    [i \in 1..Len(d) |->
        [new_index |-> d[i].frame_index, timestamp |-> d[i].timestamp,
         latitude |-> d[i].latitude, longitude |-> d[i].longitude,
         speed |-> d[i].speed, speed_units |-> d[i].speed_units]]

\* line 13-14: new_index added, frame_delta and frame_index dropped
Reindexed(d, idx) ==
    [i \in 1..Len(d) |->
        [new_index |-> idx[i], timestamp |-> d[i].timestamp,
         latitude |-> d[i].latitude, longitude |-> d[i].longitude,
         speed |-> d[i].speed, speed_units |-> d[i].speed_units]]

\* line 16
FilterNonZeroLatitude(d) == SelectSeq(d, LAMBDA r : r.latitude # 0)

\* line 17
FilterLatitudeDomain(d) == SelectSeq(d, LAMBDA r : Abs(r.latitude) <= 90)

\* line 18 testing the latitude column a second time
FilterLongitudeDomain_OnLatitude(d) == SelectSeq(d, LAMBDA r : Abs(r.latitude) <= 180)

\* line 18
FilterLongitudeDomain(d) == SelectSeq(d, LAMBDA r : Abs(r.longitude) <= 180)

\* lines 30-41, 53-60: df.filter(band test on column name)
FilterBand(d, name, st, kn, kd) ==
    SelectSeq(d, LAMBDA r : WithinBand(r[name], st, kn, kd))

\* lines 46-47 with the differences written over latitude and longitude
WithDeltas_InPlace(d) ==
    LET lat == DiffFillNull(Column(d, "latitude"), 0)
        lon == DiffFillNull(Column(d, "longitude"), 0)
    IN  [i \in 1..Len(d) |->
            [new_index |-> d[i].new_index, timestamp |-> d[i].timestamp,
             latitude |-> lat[i], longitude |-> lon[i],
             speed |-> d[i].speed, speed_units |-> d[i].speed_units,
             lat_delta |-> lat[i], lon_delta |-> lon[i]]]

\* lines 46-47: lat_delta and lon_delta added (replaced when present)
WithDeltas(d) ==
    LET lat == DiffFillNull(Column(d, "latitude"), 0)
        lon == DiffFillNull(Column(d, "longitude"), 0)
    IN  [i \in 1..Len(d) |->
            [new_index |-> d[i].new_index, timestamp |-> d[i].timestamp,
             latitude |-> d[i].latitude, longitude |-> d[i].longitude,
             speed |-> d[i].speed, speed_units |-> d[i].speed_units,
             lat_delta |-> lat[i], lon_delta |-> lon[i]]]

\* the threshold without the small-sample factor: std_threshold = (2 * h) / h
DeltaThresholdNum_Uncorrected(h) == std_threshold * h

\* std_threshold * (1 + 100 / h) = DeltaThresholdNum(h) / h
DeltaThresholdNum(h) == std_threshold * (h + SmallSampleTerm)

\* the state of the functions that are not running
NoDict == [f \in {} |-> 0]

IdleClean ==
    /\ input = <<>>
    /\ df = <<>>
    /\ loaded = 0
    /\ interval = 0
    /\ stats = NoColumnStats
    /\ dstats = NoColumnStats
    /\ base = <<>>
    /\ prev = <<>>
    /\ run = 0
    /\ out1 = <<>>

IdleJoin ==
    /\ time_dict = NoDict
    /\ gps_dict = NoDict
    /\ speed_dict = NoDict
    /\ joined_df = <<>>

\* 0.0 as a number num / 10^scale
Zero == [num |-> 0, scale |-> 0]

IdleCoord ==
    /\ coord_string = <<>>
    /\ slot = 0
    /\ gps_dict_out = [latitude |-> Zero, longitude |-> Zero]

IdleDir ==
    /\ input_dir = <<>>
    /\ pslot = 0
    /\ dir_exists = FALSE
    /\ listing = {}
    /\ image_files = <<>>
    /\ data_type = <<>>
    /\ next_image = 0
    /\ frame_dict = NoDict

notCleanVars == <<joinVars, coordVars, dirVars>>

notJoinVars == <<cleanVars, coordVars, dirVars>>

notCoordVars == <<cleanVars, joinVars, dirVars>>

notDirVars == <<cleanVars, joinVars, coordVars>>

Raise(e) ==
    /\ pc' = "raised"
    /\ error' = e

InitClean ==
    /\ pc = "load"
    /\ error = "none"
    /\ IdleClean
    /\ IdleJoin
    /\ IdleCoord
    /\ IdleDir

\* pl.read_csv("output/dashcam.csv"), a block of equal rows at a time
LoadRows(b) ==
    /\ pc = "load"
    /\ loaded < MaxBlocks
    /\ df' = Append_(df, b[1], b[2], Frequency)
    /\ loaded' = loaded + 1
    /\ UNCHANGED <<pc, error, input, interval, stats, dstats, base, prev, run, out1>>
    /\ UNCHANGED notCleanVars

\* pl.read_csv("output/dashcam.csv"), a row at a time, frame_index moving by step
LoadFrame(r, step) ==
    /\ pc = "load"
    /\ Len(df) < MaxFrames
    /\ df' = Append_(df, r, 1, step)
    /\ UNCHANGED <<pc, error, input, loaded, interval, stats, dstats, base, prev, run, out1>>
    /\ UNCHANGED notCleanVars

\* clean_dataframe(df) is called
StartClean ==
    /\ pc = "load"
    /\ pc' = "reindex"
    /\ run' = 1
    /\ input' = df
    /\ UNCHANGED <<error, df, loaded, interval, stats, dstats, base, prev, out1>>
    /\ UNCHANGED notCleanVars

\* lines 11-14.  mode() of an empty column is empty and [0] raises; among
\* several modes [0] is any of them; range(0, 0, 0) raises ValueError
Reindex ==
    /\ pc = "reindex"
    /\ LET frame_delta == DiffFillNull(Column(df, "frame_index"), 0)
       IN  IF Len(df) = 0
           THEN Raise("IndexError") /\ UNCHANGED <<df, interval>>
           ELSE \E iv \in Mode(frame_delta) :
                    /\ interval' = iv
                    /\ IF iv = 0
                       THEN Raise("ValueError") /\ UNCHANGED df
                       ELSE LET idx == Range(0, iv * Len(df), iv)
                            IN  IF Len(idx) # Len(df)
                                THEN Raise("ShapeError") /\ UNCHANGED df
                                ELSE /\ df' = Reindexed(df, idx)
                                     /\ pc' = "zero_domain"
                                     /\ UNCHANGED error
    /\ UNCHANGED <<input, loaded, stats, dstats, base, prev, run, out1>>
    /\ UNCHANGED notCleanVars

\* lines 16-18
ZeroDomainPass ==
    /\ pc = "zero_domain"
    /\ prev' = df
    /\ df' = FilterLongitudeDomain(FilterLatitudeDomain(FilterNonZeroLatitude(df)))
    /\ pc' = "stats"
    /\ UNCHANGED <<error, input, loaded, interval, stats, dstats, base, run, out1>>
    /\ UNCHANGED notCleanVars

\* lines 22-29
MagnitudeStats ==
    /\ pc = "stats"
    /\ stats' = [latitude |-> ColStats(Column(df, "latitude")),
                 longitude |-> ColStats(Column(df, "longitude")),
                 speed |-> ColStats(Column(df, "speed"))]
    /\ base' = df
    /\ pc' = "lat"
    /\ UNCHANGED <<error, input, df, loaded, interval, dstats, prev, run, out1>>
    /\ UNCHANGED notCleanVars

\* lines 30-33 (34-37, 38-41): abs(None) or 2 * None raises TypeError
FilterMagnitude(at, name, k, then) ==
    /\ pc = at
    /\ IF stats[name].n <= 1
       THEN Raise("TypeError") /\ UNCHANGED <<df, prev>>
       ELSE /\ prev' = df
            /\ df' = FilterBand(df, name, stats[name], k, 1)
            /\ pc' = then
            /\ UNCHANGED error
    /\ UNCHANGED <<input, loaded, interval, stats, dstats, base, run, out1>>
    /\ UNCHANGED notCleanVars

FilterLatitude == FilterMagnitude("lat", "latitude", std_threshold, "lon")

FilterLongitude == FilterMagnitude("lon", "longitude", std_threshold, "speed")

FilterSpeed == FilterMagnitude("speed", "speed", speed_std_threshold, "deltas")

\* lines 46-51
DeltaStats ==
    /\ pc = "deltas"
    /\ df' = WithDeltas(df)
    /\ dstats' = [latitude |-> ColStats(DiffFillNull(Column(df, "latitude"), 0)),
                  longitude |-> ColStats(DiffFillNull(Column(df, "longitude"), 0)),
                  speed |-> NoStats]
    /\ base' = df'
    /\ pc' = "lat_delta"
    /\ UNCHANGED <<error, input, loaded, interval, stats, prev, run, out1>>
    /\ UNCHANGED notCleanVars

\* lines 53-56 (57-60): 100 / df.height raises ZeroDivisionError on an empty
\* table, abs(None) or a product with None raises TypeError
FilterDelta(at, name, col, then) ==
    /\ pc = at
    /\ IF Len(df) = 0
       THEN Raise("ZeroDivisionError") /\ UNCHANGED <<df, prev>>
       ELSE IF dstats[name].n <= 1
       THEN Raise("TypeError") /\ UNCHANGED <<df, prev>>
       ELSE /\ prev' = df
            /\ df' = FilterBand(df, col, dstats[name], DeltaThresholdNum(Len(df)), Len(df))
            /\ pc' = then
            /\ UNCHANGED error
    /\ UNCHANGED <<input, loaded, interval, stats, dstats, base, run, out1>>
    /\ UNCHANGED notCleanVars

FilterLatDelta == FilterDelta("lat_delta", "latitude", "lat_delta", "lon_delta")

FilterLonDelta == FilterDelta("lon_delta", "longitude", "lon_delta", "return")

\* lines 62-66: the table is written to filtered_dashcam.csv and returned
Return ==
    /\ pc = "return"
    /\ pc' = "done"
    /\ out1' = IF run = 1 THEN df ELSE out1
    /\ UNCHANGED <<error, input, df, loaded, interval, stats, dstats, base, prev, run>>
    /\ UNCHANGED notCleanVars

\* the outlier filter (lines 16-60) is run again on the table it returned
Rerun ==
    /\ pc = "done"
    /\ run = 1
    /\ run' = 2
    /\ pc' = "zero_domain"
    /\ UNCHANGED <<error, input, df, loaded, interval, stats, dstats, base, prev, out1>>
    /\ UNCHANGED notCleanVars

CleanSteps ==
    \/ StartClean
    \/ Reindex
    \/ ZeroDomainPass
    \/ MagnitudeStats
    \/ FilterLatitude
    \/ FilterLongitude
    \/ FilterSpeed
    \/ DeltaStats
    \/ FilterLatDelta
    \/ FilterLonDelta
    \/ Return

\* the outlier filter on tables of typical rows and anomalies
Next == (\E b \in InputBlocks : LoadRows(b)) \/ CleanSteps

Spec == InitClean /\ [][Next]_vars

\* the reindexer on short tables with irregular frame_index steps
NextReindex == (\E r \in FrameRows, s \in FrameSteps : LoadFrame(r, s)) \/ CleanSteps

SpecReindex == InitClean /\ [][NextReindex]_vars

\* the outlier filter run twice
NextRerun == Next \/ Rerun

SpecRerun == InitClean /\ [][NextRerun]_vars

(***************************************************************************)
(* dict_to_dataframe (ocr_functions.py, lines 154-190).  A stream is a     *)
(* dict from frame index to entry; image_directory_to_dict fills it in     *)
(* ascending frame order and never returns it empty (line 69), so          *)
(* list(d.keys()) is the ascending sequence of its keys and the three      *)
(* streams joined here hold at least one entry each.                       *)
(***************************************************************************)
StreamFrames == {(i - 1) * Frequency : i \in 1..MaxStreamFrames}

TimeEntries == {[time |-> "08-04-2024 11:28:08"]}

GpsEntries == {[gps |-> [latitude |-> 30, longitude |-> -97]],
               [gps |-> [latitude |-> 0, longitude |-> 0]]}

SpeedEntries == {[speed |-> [speed |-> 72, speed_units |-> "MPH"]]}

RECURSIVE SortedSeq(_)
\* the elements of a set of integers, ascending
SortedSeq(S) ==
    IF S = {} THEN <<>>
    ELSE LET m == CHOOSE x \in S : \A y \in S : x <= y
         IN  <<m>> \o SortedSeq(S \ {m})

\* list(d.keys())
Keys(d) == SortedSeq(DOMAIN d)

\* d[f] = e
Put(d, f, e) == [g \in DOMAIN d \cup {f} |-> IF g = f THEN e ELSE d[g]]

\* lines 164-169
time_df(d) ==
    [i \in 1..Len(Keys(d)) |->
        [frame_index |-> Keys(d)[i], timestamp |-> d[Keys(d)[i]].time]]

\* lines 172-178
gps_df(d) ==
    [i \in 1..Len(Keys(d)) |->
        [frame_index |-> Keys(d)[i], latitude |-> d[Keys(d)[i]].gps.latitude,
         longitude |-> d[Keys(d)[i]].gps.longitude]]

\* lines 181-187
speed_df(d) ==
    [i \in 1..Len(Keys(d)) |->
        [frame_index |-> Keys(d)[i], speed |-> d[Keys(d)[i]].speed.speed,
         speed_units |-> d[Keys(d)[i]].speed.speed_units]]

RECURSIVE Flatten(_)
Flatten(ss) == IF Len(ss) = 0 THEN <<>> ELSE Head(ss) \o Flatten(Tail(ss))

\* left joined to right as how = "left" does: a left row without a partner
\* is kept
LeftJoin(left, right) ==
    Flatten([i \in 1..Len(left) |->
        LET partners == SelectSeq(right, LAMBDA r : r.frame_index = left[i].frame_index)
        IN  IF Len(partners) = 0 THEN <<left[i]>>
            ELSE [j \in 1..Len(partners) |-> left[i] @@ partners[j]]])

\* left.join(right, on = 'frame_index'), how = "inner": one row for every
\* pair of a left row and a right row with the same frame_index
InnerJoin(left, right) ==
    Flatten([i \in 1..Len(left) |->
        LET partners == SelectSeq(right, LAMBDA r : r.frame_index = left[i].frame_index)
        IN  [j \in 1..Len(partners) |-> left[i] @@ partners[j]]])

InitJoin ==
    /\ pc = "streams"
    /\ error = "none"
    /\ IdleClean
    /\ IdleJoin
    /\ IdleCoord
    /\ IdleDir

\* the three calls of image_directory_to_dict (lines 202-204), an entry at a time
PutTime(f, e) ==
    /\ pc = "streams"
    /\ f \notin DOMAIN time_dict
    /\ time_dict' = Put(time_dict, f, e)
    /\ UNCHANGED <<pc, error, gps_dict, speed_dict, joined_df>>
    /\ UNCHANGED notJoinVars

PutGps(f, e) ==
    /\ pc = "streams"
    /\ f \notin DOMAIN gps_dict
    /\ gps_dict' = Put(gps_dict, f, e)
    /\ UNCHANGED <<pc, error, time_dict, speed_dict, joined_df>>
    /\ UNCHANGED notJoinVars

PutSpeed(f, e) ==
    /\ pc = "streams"
    /\ f \notin DOMAIN speed_dict
    /\ speed_dict' = Put(speed_dict, f, e)
    /\ UNCHANGED <<pc, error, time_dict, gps_dict, joined_df>>
    /\ UNCHANGED notJoinVars

\* lines 164-190
DictToDataframe ==
    /\ pc = "streams"
    /\ DOMAIN time_dict # {} /\ DOMAIN gps_dict # {} /\ DOMAIN speed_dict # {}
    /\ joined_df' = InnerJoin(InnerJoin(time_df(time_dict), gps_df(gps_dict)),
                              speed_df(speed_dict))
    /\ pc' = "joined"
    /\ UNCHANGED <<error, time_dict, gps_dict, speed_dict>>
    /\ UNCHANGED notJoinVars

NextJoin ==
    \/ \E f \in StreamFrames, e \in TimeEntries : PutTime(f, e)
    \/ \E f \in StreamFrames, e \in GpsEntries : PutGps(f, e)
    \/ \E f \in StreamFrames, e \in SpeedEntries : PutSpeed(f, e)
    \/ DictToDataframe

\* the record assembler on the three streams of one video
SpecJoin == InitJoin /\ [][NextJoin]_vars

(***************************************************************************)
(* text_to_coordinates (ocr_functions.py, lines 101-119).  A string is a   *)
(* sequence of one-character strings.  A float is the number               *)
(* num / 10^scale with no trailing zero in num when scale > 0, so that     *)
(* float("09.50") and float("9.5") are the same value.                     *)
(***************************************************************************)
Digits == {"0", "1", "2", "3", "4", "5", "6", "7", "8", "9"}

\* \s among the characters of the model
Spaces == {" "}

DigitValue(c) ==
    CASE c = "0" -> 0 [] c = "1" -> 1 [] c = "2" -> 2 [] c = "3" -> 3 [] c = "4" -> 4
      [] c = "5" -> 5 [] c = "6" -> 6 [] c = "7" -> 7 [] c = "8" -> 8 [] c = "9" -> 9

RECURSIVE ToInt(_)
\* int() of a string of digits
ToInt(ds) == IF Len(ds) = 0 THEN 0
             ELSE 10 * ToInt(SubSeq(ds, 1, Len(ds) - 1)) + DigitValue(ds[Len(ds)])

RECURSIVE Pow10(_)
Pow10(n) == IF n = 0 THEN 1 ELSE 10 * Pow10(n - 1)

RECURSIVE Normal(_, _)
Normal(num, scale) ==
    IF scale > 0 /\ num % 10 = 0 THEN Normal(num \div 10, scale - 1)
    ELSE [num |-> num, scale |-> scale]

\* float(whole + "." + frac)
ToFloat(whole, frac) == Normal(ToInt(whole \o frac), Len(frac))

\* v * sign
Times(v, sign) == [num |-> v.num * sign, scale |-> v.scale]

RECURSIVE SkipIn(_, _, _)
\* the index after the longest run, from i, of characters in cls
SkipIn(s, i, cls) ==
    IF i <= Len(s) /\ s[i] \in cls THEN SkipIn(s, i + 1, cls) ELSE i

RECURSIVE SkipNotIn(_, _, _)
\* the index after the longest run, from i, of characters not in cls
SkipNotIn(s, i, cls) ==
    IF i <= Len(s) /\ s[i] \notin cls THEN SkipNotIn(s, i + 1, cls) ELSE i

NoMatch == [ok |-> FALSE]

\* (\s*\.\s*) from i: the index after it, 0 when it does not match
Decimal(s, i) ==
    LET p == SkipIn(s, i, Spaces)
    IN  IF p <= Len(s) /\ s[p] = "." THEN SkipIn(s, p + 1, Spaces) ELSE 0

\* line 109 matched from position i.  Every quantifier is greedy and is
\* followed by a character class disjoint from its own, so the only match
\* from i takes each run whole.
\*   ([NS])\D*(\d+)(\s*\.\s*)(\d+)\s*([EW])\D*(\d+)(\s*\.\s*)(\d+)
MatchAt(s, i) ==
    IF s[i] \notin {"N", "S"} THEN NoMatch ELSE
    LET a == SkipNotIn(s, i + 1, Digits)
        b == SkipIn(s, a, Digits)
        c == Decimal(s, b)
        d == SkipIn(s, c, Digits)
        e == SkipIn(s, d, Spaces)
    IN  IF b = a \/ c = 0 \/ d = c \/ e > Len(s) THEN NoMatch
        ELSE IF s[e] \notin {"E", "W"} THEN NoMatch ELSE
    LET f == SkipNotIn(s, e + 1, Digits)
        g == SkipIn(s, f, Digits)
        h == Decimal(s, g)
        k == SkipIn(s, h, Digits)
    IN  IF g = f \/ h = 0 \/ k = h THEN NoMatch
        ELSE [ok |-> TRUE,
              lat_dir |-> s[i],
              lat_whole_number |-> SubSeq(s, a, b - 1),
              lat_float_number |-> SubSeq(s, c, d - 1),
              lon_dir |-> s[e],
              lon_whole_number |-> SubSeq(s, f, g - 1),
              lon_float_number |-> SubSeq(s, h, k - 1)]

\* regex_coord_pattern.search(coord_string): the match from the leftmost
\* position that has one
Search(s) ==
    LET starts == {i \in 1..Len(s) : MatchAt(s, i).ok}
    IN  IF starts = {} THEN NoMatch
        ELSE MatchAt(s, CHOOSE i \in starts : \A j \in starts : i <= j)

\* line 114: 1 if lat_dir == 'N' else -1
LatSign(dir) == IF dir = "N" THEN 1 ELSE -1

\* line 115 with the test of line 114: 1 if lon_dir == 'N' else -1
LonSign_TestsN(dir) == IF dir = "N" THEN 1 ELSE -1

\* line 115: 1 if lon_dir == 'E' else -1
LonSign(dir) == IF dir = "E" THEN 1 ELSE -1

\* lines 109-119
text_to_coordinates(s) ==
    LET m == Search(s)
    IN  IF ~m.ok THEN [latitude |-> Zero, longitude |-> Zero]
        ELSE [latitude |-> Times(ToFloat(m.lat_whole_number, m.lat_float_number),
                                 LatSign(m.lat_dir)),
              longitude |-> Times(ToFloat(m.lon_whole_number, m.lon_float_number),
                                  LonSign(m.lon_dir))]

\* the parts an OCR text is written from, in order: stray lead, hemisphere
\* letter, gap, degrees, decimal point, fraction (latitude), white space,
\* then the same for the longitude.  Every part may be missing.
TextParts ==
    << {<<>>, <<"S">>, <<"x">>},
       {<<>>, <<"N">>, <<"S">>},
       {<<>>, <<" ">>},
       {<<>>, <<"4">>},
       {<<>>, <<".">>, <<" ", ".">>},
       {<<>>, <<"5">>},
       {<<>>, <<" ">>},
       {<<>>, <<"E">>, <<"W">>},
       {<<>>, <<" ">>},
       {<<>>, <<"0", "9">>},
       {<<>>, <<".">>, <<".", " ">>},
       {<<>>, <<"5", "0">>} >>

InitCoord ==
    /\ pc = "text"
    /\ error = "none"
    /\ IdleClean
    /\ IdleJoin
    /\ IdleCoord
    /\ IdleDir

\* the OCR engine's output, a part at a time
WriteText(part) ==
    /\ pc = "text"
    /\ slot < Len(TextParts)
    /\ part \in TextParts[slot + 1]
    /\ coord_string' = coord_string \o part
    /\ slot' = slot + 1
    /\ UNCHANGED <<pc, error, gps_dict_out>>
    /\ UNCHANGED notCoordVars

\* text_to_coordinates(coord_string) is called and returns
TextToCoordinates ==
    /\ pc = "text"
    /\ gps_dict_out' = text_to_coordinates(coord_string)
    /\ pc' = "parsed"
    /\ UNCHANGED <<error, coord_string, slot>>
    /\ UNCHANGED notCoordVars

NextCoord ==
    \/ \E part \in UNION {TextParts[k] : k \in 1..Len(TextParts)} : WriteText(part)
    \/ TextToCoordinates

\* the coordinate parser on OCR texts
SpecCoord == InitCoord /\ [][NextCoord]_vars

(***************************************************************************)
(* image_directory_to_dict (ocr_functions.py, lines 46-99).  A path is the *)
(* sequence of its segments (the text between the slashes, without white   *)
(* space) and a segment or a file name is a sequence of characters.  The   *)
(* OCR engine is not modelled: an entry of a recognized kind records the   *)
(* kind and the image whose text the kind's parser was given.              *)
(***************************************************************************)
DotDot == <<".", ".">>
FramesDir == <<"f", "r", "a", "m", "e", "s">>
VideoDir == <<"0", "1", "F">>
Gps == <<"g", "p", "s">>
Speed == <<"s", "p", "e", "e", "d">>
Time == <<"t", "i", "m", "e">>
Other == <<"f", "o", "o">>
Gps2 == <<"g", "p", "s", "2">>

\* the parts a path is written from, in order; every part but the last may
\* be missing:  [../][frames/][01F/]<final segment>
PathParts ==
    << {<<>>, <<DotDot>>},
       {<<>>, <<FramesDir>>},
       {<<>>, <<VideoDir>>},
       {<<Gps>>, <<Speed>>, <<Time>>, <<Other>>, <<Gps2>>} >>

\* the files a directory may hold
Files ==
    {<<"f", "2", ".", "j", "p", "g">>,
     <<"f", "1", "0", ".", "P", "N", "G">>,
     <<"g", "2", ".", "j", "p", "e", "g">>,
     <<"n", ".", "t", "x", "t">>,
     <<"c", ".", "j", "p", "g">>}

\* re.IGNORECASE on the letters of the extensions
Lower(c) ==
    CASE c = "J" -> "j" [] c = "P" -> "p" [] c = "G" -> "g" [] c = "N" -> "n"
      [] c = "E" -> "e" [] OTHER -> c

EndsWith(s, t) ==
    /\ Len(s) >= Len(t)
    /\ \A i \in 1..Len(t) : Lower(s[Len(s) - Len(t) + i]) = t[i]

\* line 59: regex_image_pattern.search(f),  \.(jpg|jpeg|png)$
IsImage(f) ==
    \/ EndsWith(f, <<".", "j", "p", "g">>)
    \/ EndsWith(f, <<".", "j", "p", "e", "g">>)
    \/ EndsWith(f, <<".", "p", "n", "g">>)

\* line 57: whether regex_suffix_pattern.search(x) matches,  \D*(\d+)\D*
HasNumber(x) == SkipNotIn(x, 1, Digits) <= Len(x)

\* int(regex_suffix_pattern.search(x).group(1)): the first run of digits
NumericalSuffix(x) ==
    LET a == SkipNotIn(x, 1, Digits)
    IN  ToInt(SubSeq(x, a, SkipIn(x, a, Digits) - 1))

\* line 60: the positions i with  \.\./(frames)/(\S*)/(\D*)  matching from
\* segment i: a segment ending in "..", the segment "frames", and at least
\* two more segments, the greedy \S* running up to the last slash
DirectoryMatches(path) ==
    {i \in 1..Len(path) - 3 :
        /\ Len(path[i]) >= 2
        /\ path[i][Len(path[i])] = "." /\ path[i][Len(path[i]) - 1] = "."
        /\ path[i + 1] = FramesDir}

\* group(3): the greedy \D* after the last slash
DirectoryKind(path) ==
    LET last == path[Len(path)]
    IN  SubSeq(last, 1, SkipNotIn(last, 1, Digits) - 1)

RECURSIVE Orders(_)
\* every sequence of the elements of a set
Orders(S) ==
    IF S = {} THEN {<<>>}
    ELSE UNION {{<<x>> \o o : o \in Orders(S \ {x})} : x \in S}

\* line 73: list.sort(key = numerical suffix) of a listing in any order; the
\* sort is stable, so files with equal keys stay in the listing's order
SortedByNumber(S) ==
    {o \in Orders(S) :
        \A i \in 1..Len(o) - 1 : NumericalSuffix(o[i]) <= NumericalSuffix(o[i + 1])}

\* lines 89-97
Entry(kind, image_name) ==
    IF kind = Gps THEN [key |-> "gps", text_of |-> image_name]
    ELSE IF kind = Speed THEN [key |-> "speed", text_of |-> image_name]
    ELSE IF kind = Time THEN [key |-> "time", text_of |-> image_name]
    ELSE [key |-> "Error", value |-> "Unrecognized Datatype"]

InitDir ==
    /\ pc = "path"
    /\ error = "none"
    /\ IdleClean
    /\ IdleJoin
    /\ IdleCoord
    /\ IdleDir

\* the caller's path, a part at a time
WritePath(part) ==
    /\ pc = "path"
    /\ pslot < Len(PathParts)
    /\ part \in PathParts[pslot + 1]
    /\ input_dir' = input_dir \o part
    /\ pslot' = pslot + 1
    /\ UNCHANGED <<pc, error, dir_exists, listing, image_files, data_type, next_image, frame_dict>>
    /\ UNCHANGED notDirVars

\* the frame extractor makes the directory (video_functions.py, line 30)
MakeDirectory ==
    /\ pc = "path"
    /\ pslot = Len(PathParts)
    /\ ~dir_exists
    /\ dir_exists' = TRUE
    /\ UNCHANGED <<pc, error, input_dir, pslot, listing, image_files, data_type, next_image, frame_dict>>
    /\ UNCHANGED notDirVars

\* a file is written to the directory
WriteFile(f) ==
    /\ pc = "path"
    /\ dir_exists
    /\ f \notin listing
    /\ listing' = listing \cup {f}
    /\ UNCHANGED <<pc, error, input_dir, pslot, dir_exists, image_files, data_type, next_image, frame_dict>>
    /\ UNCHANGED notDirVars

\* lines 54-76: the call, up to the loop
EnterDirectory ==
    /\ pc = "path"
    /\ pslot = Len(PathParts)
    /\ LET images == {f \in listing : IsImage(f)}
       IN  IF ~dir_exists
           THEN Raise("AssertionError: Directory does not exist")
                /\ UNCHANGED <<image_files, data_type, next_image>>
           ELSE IF images = {}
           THEN Raise("AssertionError: Provided directory does not contain any images")
                /\ UNCHANGED <<image_files, data_type, next_image>>
           ELSE IF \E f \in images : ~HasNumber(f)
           THEN Raise("AttributeError: line 73")
                /\ UNCHANGED <<image_files, data_type, next_image>>
           ELSE \E sorted \in SortedByNumber(images) :
                    /\ image_files' = sorted
                    /\ IF DirectoryMatches(input_dir) = {}
                       THEN Raise("AttributeError: line 74")
                            /\ UNCHANGED <<data_type, next_image>>
                       ELSE /\ data_type' = DirectoryKind(input_dir)
                            /\ next_image' = 1
                            /\ pc' = "loop"
                            /\ UNCHANGED error
    /\ UNCHANGED <<input_dir, pslot, dir_exists, listing, frame_dict>>
    /\ UNCHANGED notDirVars

\* lines 77-97: one turn of the loop; cv2.imread gives None for a file it
\* cannot read
ProcessImage ==
    /\ pc = "loop"
    /\ next_image <= Len(image_files)
    /\ \E opened \in BOOLEAN :
           IF ~opened
           THEN Raise("AssertionError: Unable to open the provided image")
                /\ UNCHANGED <<next_image, frame_dict>>
           ELSE /\ frame_dict' = Put(frame_dict, NumericalSuffix(image_files[next_image]),
                                     Entry(data_type, image_files[next_image]))
                /\ next_image' = next_image + 1
                /\ UNCHANGED <<pc, error>>
    /\ UNCHANGED <<input_dir, pslot, dir_exists, listing, image_files, data_type>>
    /\ UNCHANGED notDirVars

\* line 99
ReturnDict ==
    /\ pc = "loop"
    /\ next_image > Len(image_files)
    /\ pc' = "returned"
    /\ UNCHANGED <<error, input_dir, pslot, dir_exists, listing, image_files, data_type,
                   next_image, frame_dict>>
    /\ UNCHANGED notDirVars

NextDir ==
    \/ \E part \in UNION {PathParts[k] : k \in 1..Len(PathParts)} : WritePath(part)
    \/ MakeDirectory
    \/ \E f \in Files : WriteFile(f)
    \/ EnterDirectory
    \/ ProcessImage
    \/ ReturnDict

\* the attribute stream builder on directories of files
SpecDir == InitDir /\ [][NextDir]_vars

(***************************************************************************)
(* The claims.                                                             *)
(***************************************************************************)

\* C1: the assembled table has a row with frame_index f if and only if f is a
\* key of all three streams, and each such f appears exactly once.
C1_InnerJoinOnFrameIndex ==
    pc = "joined" =>
        /\ \A i \in 1..Len(joined_df) : joined_df[i].frame_index \in StreamFrames
        /\ \A f \in StreamFrames :
               Cardinality({i \in 1..Len(joined_df) : joined_df[i].frame_index = f})
                   = (IF f \in DOMAIN time_dict /\ f \in DOMAIN gps_dict /\ f \in DOMAIN speed_dict
                      THEN 1 ELSE 0)

\* C1 witness: a table was assembled, with a row in it, from streams with a
\* frame that only the speed stream misses and a frame that the timestamp
\* stream misses.
C1_Witness ==
    /\ pc = "joined"
    /\ Len(joined_df) > 0
    /\ \E f \in DOMAIN time_dict : f \in DOMAIN gps_dict /\ f \notin DOMAIN speed_dict
    /\ \E f \in DOMAIN speed_dict : f \notin DOMAIN time_dict
StrictlyIncreasing(col) == \A i \in 1..Len(col) - 1 : col[i] < col[i + 1]

\* the differences that have a predecessor: none for the first row
NonNullDiffs(col) == [i \in 1..Len(col) - 1 |-> col[i + 1] - col[i]]

ReindexErrors == {"IndexError", "ValueError", "ShapeError"}

\* the reindexing step has run on the table clean_dataframe was called with
AfterReindex == run = 1 /\ pc \in {"zero_domain", "raised"} /\ (pc = "raised" => error \in ReindexErrors)

\* C2: for every non-empty input with strictly increasing frame_index the
\* reindexing step completes without error and new_index is 0, interval,
\* 2*interval, ..., (n-1)*interval, strictly increasing, one value per row.
C2_ReindexCompletes ==
    (AfterReindex /\ Len(input) > 0 /\ StrictlyIncreasing(Column(input, "frame_index")))
        => /\ pc = "zero_domain"
           /\ Len(df) = Len(input)
           /\ \A i \in 1..Len(df) : df[i].new_index = (i - 1) * interval
           /\ StrictlyIncreasing(Column(df, "new_index"))

\* C3: the reindexer's interval is the mode of the non-null differences of
\* frame_index; the first row contributes no difference.
C3_IntervalIsModeOfNonNullDiffs ==
    (AfterReindex /\ Len(input) > 0)
        => interval \in Mode(NonNullDiffs(Column(input, "frame_index")))

\* C4: no row of the returned table has latitude 0, |latitude| > 90 or
\* |longitude| > 180.
C4_ReturnedRowsInDomain ==
    pc = "done" =>
        \A i \in 1..Len(df) :
            /\ df[i].latitude # 0
            /\ Abs(df[i].latitude) <= 90
            /\ Abs(df[i].longitude) <= 180

\* C4 witness: a table is returned, with rows left, whose input held the
\* sentinel and a row outside each domain.
C4_Witness ==
    /\ pc = "done"
    /\ Len(df) > 0
    /\ \E i \in 1..Len(input) : input[i].latitude = 0
    /\ \E i \in 1..Len(input) : Abs(input[i].latitude) > 90 \/ Abs(input[i].longitude) > 180

\* C5 (as claimed): in the returned table new_index is strictly increasing
\* and consecutive rows differ by one constant step, the interval.
C5_ConstantStep ==
    pc = "done" =>
        \A i \in 1..Len(df) - 1 :
            /\ df[i].new_index < df[i + 1].new_index
            /\ df[i + 1].new_index - df[i].new_index = interval

\* C5 (amended): in the returned table consecutive rows' new_index differ by
\* a positive whole multiple of the nonzero interval the reindexer chose, so
\* new_index is strictly increasing when that interval is positive.
C5_StepIsMultipleOfInterval ==
    pc = "done" =>
        /\ interval # 0
        /\ \A i \in 1..Len(df) - 1 :
            /\ \E k \in 1..Len(input) :
                   df[i + 1].new_index - df[i].new_index = k * interval
            /\ interval > 0 => df[i].new_index < df[i + 1].new_index

\* C5 witness: a returned table with a gap where a row was dropped between
\* two surviving rows.
C5_Witness ==
    /\ pc = "done"
    /\ \E i \in 1..Len(df) - 1 : df[i + 1].new_index - df[i].new_index = 2 * interval

\* sum of squares of a column
SumSq(col) == Sum([i \in 1..Len(col) |-> col[i] * col[i]])

\* |x| within [|mean| - k*std, |mean| + k*std], mean and std (ddof = 1) those
\* of col, k = kn/kd, Len(col) >= 2:
\*   (|x| - |S|/n)^2 <= k^2 * (n*Q - S^2) / (n*(n-1))
InBandOf(x, col, kn, kd) ==
    LET n == Len(col)
        S == Sum(col)
        v == n * SumSq(col) - S * S
        d == n * Abs(x) - Abs(S)
    IN  IF v = 0 THEN d = 0
        ELSE FracLeq((n - 1) * d * d, n * v, kn * kn, kd * kd)

\* the rows of tbl whose column name is within the band of col
KeptRows(tbl, name, col, kn, kd) ==
    SelectSeq(tbl, LAMBDA r : InBandOf(r[name], col, kn, kd))

AbsColumn(d, name) == [i \in 1..Len(d) |-> Abs(d[i][name])]

\* C6 (as claimed): each magnitude test keeps the rows within the band whose
\* mean and std are those of the absolute value of the column over the rows
\* surviving when that test is applied.
C6_StatsOfAbsOverCurrentRows ==
    /\ pc = "lon" => df = KeptRows(prev, "latitude", AbsColumn(prev, "latitude"), 2, 1)
    /\ pc = "speed" => df = KeptRows(prev, "longitude", AbsColumn(prev, "longitude"), 2, 1)
    /\ pc = "deltas" => df = KeptRows(prev, "speed", AbsColumn(prev, "speed"), 3, 1)

\* C6 (amended): the mean and std of each test are those of the signed
\* column over the rows surviving the zero/domain pass (taken for all three
\* columns before the first test); a row is kept only if the column's
\* absolute value is within [|mean| - k*std, |mean| + k*std], k = 2 for
\* latitude and longitude, k = 3 for speed.
C6_StatsOfSignedOverZeroDomainRows ==
    /\ pc = "lon" => df = KeptRows(prev, "latitude", Column(base, "latitude"), 2, 1)
    /\ pc = "speed" => df = KeptRows(prev, "longitude", Column(base, "longitude"), 2, 1)
    /\ pc = "deltas" => df = KeptRows(prev, "speed", Column(base, "speed"), 3, 1)

\* C6 witness: the speed test has dropped a row after an earlier magnitude
\* test had dropped one.
C6_Witness ==
    /\ pc = "deltas"
    /\ Len(df) < Len(prev)
    /\ Len(prev) < Len(base)

\* C7: the deltas are first differences over the rows surviving the magnitude
\* filter, and each delta test keeps a row only if |delta| is within
\* [|mean| - k'*std, |mean| + k'*std], mean/std of that delta column,
\* k' = 2 * (1 + 100/n), n the row count when the test is applied.
C7_DeltaFilter ==
    /\ pc = "lat_delta" =>
           \A i \in 1..Len(df) :
               /\ df[i].lat_delta = (IF i = 1 THEN 0 ELSE df[i].latitude - df[i - 1].latitude)
               /\ df[i].lon_delta = (IF i = 1 THEN 0 ELSE df[i].longitude - df[i - 1].longitude)
    /\ pc = "lon_delta" =>
           df = KeptRows(prev, "lat_delta", Column(base, "lat_delta"),
                         2 * (Len(prev) + 100), Len(prev))
    /\ pc = "return" =>
           df = KeptRows(prev, "lon_delta", Column(base, "lon_delta"),
                         2 * (Len(prev) + 100), Len(prev))

\* C7 witness: the longitude delta test has dropped a row after the latitude
\* delta test had dropped another.
C7_Witness ==
    /\ pc = "return"
    /\ Len(df) < Len(prev)
    /\ Len(prev) < Len(base)

\* C8: running the outlier filter on a table it returned removes no row.
C8_FilterIdempotent ==
    (pc = "done" /\ run = 2) => Len(df) = Len(out1)

(***************************************************************************)
(* C9.  The pattern as a set of matches: every way of cutting the text     *)
(* into the pattern's parts, with no order of preference among them.       *)
(***************************************************************************)
\* the ends q of the pieces s[p..q-1] made of characters of cls only
EndsIn(s, p, cls) == {q \in p..Len(s) + 1 : \A j \in p..q - 1 : s[j] \in cls}

\* the same for characters outside cls
EndsNotIn(s, p, cls) == {q \in p..Len(s) + 1 : \A j \in p..q - 1 : s[j] \notin cls}

\* the ends of a number of at least one digit that starts at p
EndsOfDigits(s, p) == EndsIn(s, p, Digits) \ {p}

\* the ends of white space, a decimal point, white space from p
EndsOfPoint(s, p) ==
    UNION {EndsIn(s, q + 1, Spaces) : q \in {r \in EndsIn(s, p, Spaces) : r <= Len(s) /\ s[r] = "."}}

\* the <deg>.<frac> readings from p: <<end, whole, frac>>; with optional, also
\* the readings <deg> with no fraction
Numbers(s, p, optional) ==
    UNION {
        (IF optional THEN {<<b, SubSeq(s, p, b - 1), <<>> >>} ELSE {}) \cup
        UNION {{<<d, SubSeq(s, p, b - 1), SubSeq(s, c, d - 1)>> : d \in EndsOfDigits(s, c)}
               : c \in EndsOfPoint(s, b)}
        : b \in EndsOfDigits(s, p)}

\* the readings of <letter> <junk> <number> from p, letter in letters:
\* <<end, letter, whole, frac>>
Halves(s, p, letters, optional) ==
    IF p > Len(s) THEN {}
    ELSE IF s[p] \notin letters THEN {}
    ELSE UNION {{<<n[1], s[p], n[2], n[3]>> : n \in Numbers(s, a, optional)}
                : a \in EndsNotIn(s, p + 1, Digits)}

\* every reading of a latitude/longitude pair in s
Pairs(s, optional) ==
    UNION {UNION {UNION {{[start |-> i, end |-> lon[1],
                           lat_dir |-> lat[2], lat_whole |-> lat[3], lat_frac |-> lat[4],
                           lon_dir |-> lon[2], lon_whole |-> lon[3], lon_frac |-> lon[4]]
                          : lon \in Halves(s, e, {"E", "W"}, optional)}
                         : e \in EndsIn(s, lat[1], Spaces)}
                  : lat \in Halves(s, i, {"N", "S"}, optional)}
           : i \in 1..Len(s)}

\* v is the number whole.frac, negated when negative
IsNumber(v, whole, frac, negative) ==
    v.num * Pow10(Len(frac)) =
        (IF negative THEN -1 ELSE 1) * ToInt(whole \o frac) * Pow10(v.scale)

\* out holds the two numbers of the reading m, latitude negated exactly when
\* its letter is S and longitude exactly when its letter is W
Reads(out, m) ==
    /\ IsNumber(out.latitude, m.lat_whole, m.lat_frac, m.lat_dir = "S")
    /\ IsNumber(out.longitude, m.lon_whole, m.lon_frac, m.lon_dir = "W")

IsSentinel(out) == out.latitude.num = 0 /\ out.longitude.num = 0

\* C9 (as claimed): text_to_coordinates returns; when the text holds a pair
\* [N|S] <deg>[.<frac>] [E|W] <deg>[.<frac>], fraction optional, it returns
\* the two numbers of such a pair, signed by the letters; otherwise 0.0, 0.0.
C9_FractionOptional ==
    pc = "parsed" =>
        LET M == Pairs(coord_string, TRUE)
        IN  IF M = {} THEN IsSentinel(gps_dict_out)
            ELSE \E m \in M : Reads(gps_dict_out, m)

\* C9 (amended): text_to_coordinates returns; when the text holds a pair
\* [N|S] <deg>.<frac> [E|W] <deg>.<frac>, both fractions present, it returns
\* the two numbers of the leftmost such pair (its last number read to its
\* last digit), latitude negated exactly when the letter the pair starts at
\* is S, longitude exactly when its letter is W; otherwise 0.0, 0.0.
C9_FractionRequired ==
    pc = "parsed" =>
        LET M == Pairs(coord_string, FALSE)
        IN  IF M = {} THEN IsSentinel(gps_dict_out)
            ELSE \E m \in M :
                    /\ \A o \in M : m.start <= o.start
                    /\ \A o \in M : o.start = m.start => o.end <= m.end
                    /\ Reads(gps_dict_out, m)

\* C9 witness: a text with a pair in the southern and western hemispheres,
\* white space before the decimal point, has been parsed to two negative
\* numbers.
C9_Witness ==
    /\ pc = "parsed"
    /\ gps_dict_out.latitude.num < 0
    /\ gps_dict_out.longitude.num < 0
    /\ \E i \in 1..Len(coord_string) - 1 : coord_string[i] = " " /\ coord_string[i + 1] = "."

RecognizedKinds == {Gps, Speed, Time}

\* C10: for an existing directory with at least one image (every image named
\* with a frame number and readable) whose final path segment is not gps,
\* speed or time, image_directory_to_dict does not abort: it returns a dict
\* with one entry per frame index, each the error value.
C10_UnrecognizedKindRecorded ==
    LET images == {f \in listing : IsImage(f)}
    IN  ( /\ pc \in {"raised", "returned"}
          /\ dir_exists
          /\ images # {}
          /\ \A f \in images : HasNumber(f)
          /\ error # "AssertionError: Unable to open the provided image"
          /\ input_dir[Len(input_dir)] \notin RecognizedKinds )
        => /\ pc = "returned"
           /\ DOMAIN frame_dict = {NumericalSuffix(f) : f \in images}
           /\ \A k \in DOMAIN frame_dict :
                  frame_dict[k] = [key |-> "Error", value |-> "Unrecognized Datatype"]

\* C11: for every existing directory holding at least one image file (each
\* of them readable), image_directory_to_dict returns; the images were
\* processed in ascending order of their numeric suffix, and the mapping has
\* exactly one entry per image file, keyed by the file's numeric suffix.
C11_OneEntryPerImageInSuffixOrder ==
    LET images == {f \in listing : IsImage(f)}
    IN  ( /\ pc \in {"raised", "returned"}
          /\ dir_exists
          /\ images # {}
          /\ error # "AssertionError: Unable to open the provided image" )
        => /\ pc = "returned"
           /\ {image_files[i] : i \in 1..Len(image_files)} = images
           /\ \A i \in 1..Len(image_files) - 1 :
                  NumericalSuffix(image_files[i]) <= NumericalSuffix(image_files[i + 1])
           /\ DOMAIN frame_dict = {NumericalSuffix(f) : f \in images}
           /\ Cardinality(DOMAIN frame_dict) = Cardinality(images)

\* C11 restricted to the directories the frame extractor writes, where the
\* call returns: a path ../frames/<video>/<kind> and image names that each
\* hold a number no other image of the directory holds.
C11_ExtractorDirectories ==
    LET images == {f \in listing : IsImage(f)}
    IN  ( /\ pc \in {"raised", "returned"}
          /\ dir_exists
          /\ images # {}
          /\ error # "AssertionError: Unable to open the provided image"
          /\ DirectoryMatches(input_dir) # {}
          /\ \A f \in images : HasNumber(f)
          /\ \A f, g \in images : f # g => NumericalSuffix(f) # NumericalSuffix(g) )
        => /\ pc = "returned"
           /\ {image_files[i] : i \in 1..Len(image_files)} = images
           /\ \A i \in 1..Len(image_files) - 1 :
                  NumericalSuffix(image_files[i]) < NumericalSuffix(image_files[i + 1])
           /\ DOMAIN frame_dict = {NumericalSuffix(f) : f \in images}
           /\ Cardinality(DOMAIN frame_dict) = Cardinality(images)

CleanedColumns == {"new_index", "timestamp", "latitude", "longitude", "speed", "speed_units"}

\* C12: every row of the table clean_dataframe writes to filtered_dashcam.csv
\* and returns has exactly the columns new_index, timestamp, latitude,
\* longitude, speed and speed_units: no frame_index and no delta column.
C12_PersistedColumns ==
    pc = "done" => \A i \in 1..Len(df) : DOMAIN df[i] = CleanedColumns

\* the table as it was immediately after reindexing (lines 11-14)
ReindexedInput == Reindexed(input, Range(0, interval * Len(input), interval))

\* the six named values of a row
Named(r) == [c \in CleanedColumns |-> r[c]]

RECURSIVE SubsequenceFrom(_, _, _, _)
\* rows i.. of a are, in order, among rows j.. of b
SubsequenceFrom(a, i, b, j) ==
    IF i > Len(a) THEN TRUE
    ELSE IF j > Len(b) THEN FALSE
    ELSE IF Named(a[i]) = Named(b[j]) THEN SubsequenceFrom(a, i + 1, b, j + 1)
    ELSE SubsequenceFrom(a, i, b, j + 1)

\* the filter passes are running or have run on the reindexed table
Filtering == pc \notin {"load", "reindex"} /\ ~(pc = "raised" /\ error \in ReindexErrors)

\* C13: at every point of the filter passes, and in the returned table, the
\* rows are a subsequence of the rows the table had immediately after
\* reindexing, in the same order, each with its timestamp, latitude,
\* longitude, speed, speed_units and new_index unchanged.
C13_FiltersOnlyDropRows ==
    Filtering => SubsequenceFrom(df, 1, ReindexedInput, 1)

\* C13 witness: a table is returned with at least two rows left and at
\* least two rows dropped, one of them the first row of the input.
C13_Witness ==
    /\ pc = "done"
    /\ Len(df) >= 2
    /\ Len(df) + 2 <= Len(input)
    /\ df[1].new_index # 0

\* the intervals line 12 can take from the table clean_dataframe was called
\* with: every most frequent value of frame_delta
PossibleIntervals == Mode(DiffFillNull(Column(input, "frame_index"), 0))

\* C14: the reindexer is deterministic: on a given frame_index sequence the
\* interval it chose is the only one it can choose, so every run on that
\* sequence has the same interval and the same new_index, ties included.
C14_IntervalDetermined ==
    (AfterReindex /\ Len(input) > 0) => PossibleIntervals = {interval}

====
